---- MODULE Spec2Model ----
(***************************************************************************)
(* Model of blissful_tuner/latent_preview.py (LatentPreviewer) and of      *)
(* blissful_tuner/prompt_management.py (rescale_text_encoders_hunyuan,     *)
(* process_wildcards).                                                     *)
(*                                                                         *)
(* Tensors are modelled by their shapes (sequences of dimension sizes),    *)
(* strings by sequences of atoms (a path atom is either one of the         *)
(* extensions ".mp4" / ".png" or a piece of text containing neither).      *)
(***************************************************************************)
EXTENDS Integers, Sequences, FiniteSets, TLC

VARIABLES
    \* ---- LatentPreviewer fields (latent_preview.py __init__) ----
    mode, model_type, args_fps, fps, scale_factor,
    \* ---- one preview() call ----
    pc, layout, latent, step, noise_idx, decoded, frames, raised,
    \* ---- the Frame Sink: file system, container, encoder ----
    files, files0, container, stream_rate, enc_buffered, pending, log,
    \* ---- write_video target handling (path model) ----
    p_target, p_frames, p_written, p_kind,
    \* ---- process_wildcards ----
    w_files, w_max_depth, w_single, w_list, w_idx, w_prompt, w_depth,
    w_keys, w_pc, w_processed, w_result, w_input, w_error,
    \* ---- rescale_text_encoders_hunyuan ----
    r_K, r_has, r_llm, r_clip, r_pc, r_i, r_cell, r_block_fwd, r_c_fwd, r_call

pvVars == <<mode, model_type, args_fps, fps, scale_factor,
            pc, layout, latent, step, noise_idx, decoded, frames, raised,
            files, files0, container, stream_rate, enc_buffered, pending, log>>
ptVars == <<p_target, p_frames, p_written, p_kind>>
wcVars == <<w_files, w_max_depth, w_single, w_list, w_idx, w_prompt, w_depth,
            w_keys, w_pc, w_processed, w_result, w_input, w_error>>
rsVars == <<r_K, r_has, r_llm, r_clip, r_pc, r_i, r_cell, r_block_fwd, r_c_fwd, r_call>>
vars == <<pvVars, ptVars, wcVars, rsVars>>

----------------------------------------------------------------------------
(* Bounds                                                                  *)
MaxFrames == 3
MaxDim == 1
TLen == 2
MaxPathLen == 4
MaxPromptLen == 2
MaxDepth == 2
MaxBlocks == 3
MaxScale == 2
MaxInput == 2
MaxList == 2

(* Program constants                                                       *)
NumChannels == 16
ScaleFactor == 8
RgbChannels == 3

None == "None"
FpsValues == {24, 30}
ModelTypes == {"hunyuan", "wan", "other"}

----------------------------------------------------------------------------
(* Strings as atom sequences; str.replace(old, new) replaces EVERY         *)
(* occurrence of old.                                                      *)
StrReplace(s, old, new) == [i \in DOMAIN s |-> IF s[i] = old THEN new ELSE s[i]]

DefaultTarget == <<"./latent_preview", ".mp4">>
TargetImg(target) == StrReplace(target, ".mp4", ".png")
TargetVideo(target) == StrReplace(target, ".png", ".mp4")

----------------------------------------------------------------------------
(* LatentPreviewer.__init__                                                *)
InitMode(preview_vae) == IF preview_vae = None THEN "latent2rgb" ELSE "taehv"

\* int(args.fps / 4): true division, then truncation toward zero
InitFpsNoQuarter(m, afps) == afps
InitFps(m, afps) == IF m = "taehv" THEN afps ELSE afps \div 4

\* an optional value is a set of at most one element ({} is None)
InitScaleFactor(m) == IF m = "taehv" THEN {} ELSE {ScaleFactor}

(* shape of the snapshot a caller hands to preview()                       *)
\* "BFCHW": {batch, frame, channel, height, width} (comments at preview())
\* "BCFHW": {batch, channel, frame, height, width}
\* the 'wan' family passes the same without the batch axis
Layouts == {"BFCHW", "BCFHW"}
CallerShape(mt, lay, F, H, W) ==
    LET body == IF lay = "BFCHW" THEN <<F, NumChannels, H, W>>
                                 ELSE <<NumChannels, F, H, W>>
    IN IF mt = "wan" THEN body ELSE <<1>> \o body

\* preview(): noisy_latents.unsqueeze(0) for 'wan', untouched otherwise
Unsqueeze0(mt, shape) == IF mt = "wan" THEN <<1>> \o shape ELSE shape

(* timesteps_percent[current_step] on a 1-D tensor of length n: indices    *)
(* -n..n-1 are accepted, negative ones count from the end.                 *)
IndexInRangeOffByOne(s, n) == s >= -n /\ s <= n
IndexInRange(s, n) == s >= -n /\ s < n
IndexRead(s, n) == s % n

(* decode_latent2rgb on a 5-D shape: result is either an error name or the *)
(* shape of the returned tensor.                                           *)
HasCoefficients(mt) == mt \in {"hunyuan", "wan"}
Latent2rgbShape(shape) ==
    \* for t in range(shape[2]): latents[:, :, t, :, :][0].permute(1, 2, 0)
    \* has shape (H, W, shape[1]); linear() wants its last axis to be the
    \* number of table rows; the stack has shape (shape[2], H, W, 3) and is
    \* returned permuted to (shape[2], 3, H, W)
    IF Len(shape) # 5 \/ shape[3] = 0 \/ shape[2] # NumChannels
    THEN [err |-> "RuntimeError", shape |-> <<>>]
    ELSE [err |-> "none", shape |-> <<shape[3], RgbChannels, shape[4], shape[5]>>]
DecodeLatent2rgbNoCheck(mt, shape) == Latent2rgbShape(shape)
DecodeLatent2rgb(mt, shape) ==
    IF ~HasCoefficients(mt) THEN [err |-> "ValueError", shape |-> <<>>]
    ELSE Latent2rgbShape(shape)

(* decode_taehv: permute(0, 2, 1, 3, 4), external decode_video, squeeze(0) *)
Permute02134(shape) == <<shape[1], shape[3], shape[2], shape[4], shape[5]>>
TaehvDecodeVideo(shape) ==
    \* external model: (1, F, C, H, W) -> (1, F, 3, 8H, 8W)
    IF shape[3] # NumChannels THEN [err |-> "RuntimeError", shape |-> <<>>]
    ELSE [err |-> "none",
          shape |-> <<shape[1], shape[2], RgbChannels, ScaleFactor * shape[4], ScaleFactor * shape[5]>>]
DecodeTaehv(shape) ==
    IF Len(shape) # 5 THEN [err |-> "RuntimeError", shape |-> <<>>]
    ELSE LET r == TaehvDecodeVideo(Permute02134(shape))
         IN IF r.err # "none" THEN r ELSE [err |-> "none", shape |-> Tail(r.shape)]

\* F.interpolate(decoded, scale_factor=k, mode="bicubic") on (F, C, H, W)
Interpolate(shape, k) == <<shape[1], shape[2], k * shape[3], k * shape[4]>>

----------------------------------------------------------------------------
(* Event log of one write_video call                                       *)
Ev(e, i, k) == [e |-> e, i |-> i, k |-> k]
RECURSIVE CountE(_, _)
CountE(l, e) == IF l = <<>> THEN 0
                ELSE (IF l[1].e = e THEN 1 ELSE 0) + CountE(Tail(l), e)
RECURSIVE SumK(_)
SumK(l) == IF l = <<>> THEN 0 ELSE l[1].k + SumK(Tail(l))
Prefix(l, j) == SubSeq(l, 1, j - 1)

\* a file is absent, partial (created or truncated, container not closed)
\* or complete
AbsentFile == "absent"
Paths == {TargetImg(DefaultTarget), TargetVideo(DefaultTarget)}

InitPreviewer ==
    /\ \E pv \in {None, "taehv.safetensors"} : mode = InitMode(pv)
    /\ model_type \in ModelTypes
    /\ args_fps \in FpsValues
    /\ fps = InitFps(mode, args_fps)
    /\ scale_factor = InitScaleFactor(mode)
    /\ pc = "idle"
    /\ layout = None /\ latent = <<>> /\ step = 0 /\ noise_idx = {}
    /\ decoded = <<>> /\ frames = <<>> /\ raised = "none"
    /\ files = [p \in Paths |-> AbsentFile]
    /\ files0 = [p \in Paths |-> AbsentFile]
    /\ container = "none" /\ stream_rate = {}
    /\ enc_buffered = 0 /\ pending = 0 /\ log = <<>>

sinkVars == <<files, container, stream_rate, enc_buffered, pending, log>>
cfgVars == <<mode, model_type, args_fps, fps, scale_factor>>
callVars == <<layout, latent, step, noise_idx, decoded, frames>>

pvOther == <<ptVars, wcVars, rsVars>>

Raise(err) == raised' = err /\ pc' = "raised"

\* preview(noisy_latents, current_step): entry, lines 43-46
PreviewBegin ==
    /\ pc = "idle"
    /\ \E lay \in Layouts, F \in 1..MaxFrames, H \in 1..MaxDim, W \in 1..MaxDim,
          s \in (-TLen - 1)..TLen :
         /\ layout' = lay
         /\ latent' = Unsqueeze0(model_type, CallerShape(model_type, lay, F, H, W))
         /\ step' = s
    /\ noise_idx' = {} /\ decoded' = <<>> /\ frames' = <<>> /\ raised' = "none"
    /\ files0' = files
    /\ container' = "none" /\ stream_rate' = {}
    /\ enc_buffered' = 0 /\ pending' = 0 /\ log' = <<>>
    /\ pc' = "normalize"
    /\ UNCHANGED <<cfgVars, files>>
    /\ UNCHANGED pvOther

\* subtract_original_and_normalize
Normalize ==
    /\ pc = "normalize"
    /\ IF IndexInRange(step, TLen)
       THEN noise_idx' = {IndexRead(step, TLen)} /\ pc' = "decode" /\ raised' = raised
       ELSE noise_idx' = noise_idx /\ Raise("IndexError")
    /\ UNCHANGED <<cfgVars, layout, latent, step, decoded, frames, files0, sinkVars>>
    /\ UNCHANGED pvOther

\* self.decoder(denoisy_latents, current_step)
Decode ==
    /\ pc = "decode"
    /\ LET r == IF mode = "taehv" THEN DecodeTaehv(latent)
                ELSE DecodeLatent2rgb(model_type, latent)
       IN IF r.err = "none"
          THEN decoded' = r.shape /\ pc' = "upscale" /\ raised' = raised
          ELSE decoded' = decoded /\ Raise(r.err)
    /\ UNCHANGED <<cfgVars, layout, latent, step, noise_idx, frames, files0, sinkVars>>
    /\ UNCHANGED pvOther

\* lines 51-62 and the branch at line 77
Upscale ==
    /\ pc = "upscale"
    /\ frames' = IF scale_factor # {} THEN Interpolate(decoded, CHOOSE k \in scale_factor : TRUE) ELSE decoded
    /\ pc' = IF frames'[1] = 1 THEN "image" ELSE "open"
    /\ UNCHANGED <<cfgVars, layout, latent, step, noise_idx, decoded, raised, files0, sinkVars>>
    /\ UNCHANGED pvOther

\* lines 78-86
SaveImage ==
    /\ pc = "image"
    /\ files' = [files EXCEPT ![TargetImg(DefaultTarget)] = "complete"]
    /\ log' = Append(log, Ev("image", 0, 0))
    /\ pc' = "done"
    /\ UNCHANGED <<cfgVars, callVars, raised, files0, container, stream_rate, enc_buffered, pending>>
    /\ UNCHANGED pvOther

\* lines 89-94: av.open(mode="w") creates/truncates the file
OpenContainer ==
    /\ pc = "open"
    /\ files' = [files EXCEPT ![TargetVideo(DefaultTarget)] = "partial"]
    /\ container' = "open"
    /\ log' = Append(log, Ev("open", 0, 0))
    /\ \/ stream_rate' = {fps} /\ pc' = "encode" /\ raised' = raised
       \/ stream_rate' = stream_rate /\ Raise("AVError")   \* add_stream fails
    /\ UNCHANGED <<cfgVars, callVars, files0, enc_buffered, pending>>
    /\ UNCHANGED pvOther

NSubmitted == CountE(log, "submit")

\* lines 97-103: next frame converted and handed to stream.encode, which
\* returns any number of the packets it holds
EncodeFrame ==
    /\ pc = "encode" /\ pending = 0 /\ NSubmitted < frames[1]
    /\ \/ \E k \in 0..(enc_buffered + 1) :
            /\ enc_buffered' = enc_buffered + 1 - k
            /\ pending' = k
            /\ log' = Append(log, Ev("submit", NSubmitted + 1, k))
            /\ pc' = "encode" /\ raised' = raised
       \/ Raise("AVError") /\ UNCHANGED <<enc_buffered, pending, log>>
    /\ UNCHANGED <<cfgVars, callVars, files0, files, container, stream_rate>>
    /\ UNCHANGED pvOther

\* container.mux(packet), lines 104 and 108
MuxPacket ==
    /\ pc \in {"encode", "flush"} /\ pending > 0
    /\ \/ /\ pending' = pending - 1
          /\ files' = [files EXCEPT ![TargetVideo(DefaultTarget)] = "partial"]
          /\ log' = Append(log, Ev("mux", 0, 0))
          /\ pc' = pc /\ raised' = raised
       \/ Raise("AVError") /\ UNCHANGED <<pending, files, log>>
    /\ UNCHANGED <<cfgVars, callVars, files0, container, stream_rate, enc_buffered>>
    /\ UNCHANGED pvOther

\* stream.encode() with no frame, line 107
FlushEncoderSkipped ==
    /\ pc = "encode" /\ pending = 0 /\ NSubmitted = frames[1]
    /\ pc' = "flush"
    /\ UNCHANGED <<cfgVars, callVars, raised, files0, sinkVars>>
    /\ UNCHANGED pvOther
FlushEncoder ==
    /\ pc = "encode" /\ pending = 0 /\ NSubmitted = frames[1]
    /\ \/ /\ pending' = enc_buffered /\ enc_buffered' = 0
          /\ log' = Append(log, Ev("flush", 0, enc_buffered))
          /\ pc' = "flush" /\ raised' = raised
       \/ Raise("AVError") /\ UNCHANGED <<pending, enc_buffered, log>>
    /\ UNCHANGED <<cfgVars, callVars, files0, files, container, stream_rate>>
    /\ UNCHANGED pvOther

\* container.close(), line 109
CloseContainer ==
    /\ pc = "flush" /\ pending = 0
    /\ container' = "closed"
    /\ files' = [files EXCEPT ![TargetVideo(DefaultTarget)] = "complete"]
    /\ log' = Append(log, Ev("close", 0, 0))
    /\ pc' = "done"
    /\ UNCHANGED <<cfgVars, callVars, raised, files0, stream_rate, enc_buffered, pending>>
    /\ UNCHANGED pvOther

\* preview() returns to the sampling loop, or its exception reaches it
Return ==
    /\ pc \in {"done", "raised"}
    /\ pc' = "idle"
    /\ layout' = None /\ latent' = <<>> /\ step' = 0 /\ noise_idx' = {}
    /\ decoded' = <<>> /\ frames' = <<>> /\ raised' = "none"
    /\ files0' = files
    /\ container' = "none" /\ stream_rate' = {}
    /\ enc_buffered' = 0 /\ pending' = 0 /\ log' = <<>>
    /\ UNCHANGED <<cfgVars, files>>
    /\ UNCHANGED pvOther

----------------------------------------------------------------------------
(* Values of the variables of the parts a specification does not exercise  *)
ParkedPreview ==
    /\ mode = None /\ model_type = None /\ args_fps = 0 /\ fps = 0 /\ scale_factor = {}
    /\ pc = None /\ layout = None /\ latent = <<>> /\ step = 0 /\ noise_idx = {}
    /\ decoded = <<>> /\ frames = <<>> /\ raised = "none"
    /\ files = <<>> /\ files0 = <<>> /\ container = "none" /\ stream_rate = {}
    /\ enc_buffered = 0 /\ pending = 0 /\ log = <<>>
ParkedPath ==
    /\ p_target = <<>> /\ p_frames = 0 /\ p_written = <<>> /\ p_kind = None
ParkedWild ==
    /\ w_files = <<>> /\ w_max_depth = 0 /\ w_single = FALSE /\ w_list = <<>>
    /\ w_idx = 0 /\ w_prompt = <<>> /\ w_depth = 0 /\ w_keys = {} /\ w_pc = None
    /\ w_processed = <<>> /\ w_result = <<>> /\ w_input = <<>> /\ w_error = "none"
ParkedRescale ==
    /\ r_K = 0 /\ r_has = <<>> /\ r_llm = 0 /\ r_clip = 0 /\ r_pc = None /\ r_i = 0
    /\ r_cell = {} /\ r_block_fwd = <<>> /\ r_c_fwd = None /\ r_call = <<>>

InitPreview == InitPreviewer /\ ParkedPath /\ ParkedWild /\ ParkedRescale
NextPreview ==
    \/ PreviewBegin \/ Normalize \/ Decode \/ Upscale \/ SaveImage
    \/ OpenContainer \/ EncodeFrame \/ MuxPacket \/ FlushEncoder \/ CloseContainer \/ Return
SpecPreview == InitPreview /\ [][NextPreview]_vars

----------------------------------------------------------------------------
(* write_video(frames, width, height, target): which file a call writes    *)
PathAtoms == {"./run", "/latent_preview", ".mp4", ".png"}
Targets == UNION {[1..n -> PathAtoms] : n \in 1..MaxPathLen}

InitPath ==
    /\ p_target \in Targets
    /\ p_frames = 0 /\ p_written = <<>> /\ p_kind = None
    /\ ParkedPreview /\ ParkedWild /\ ParkedRescale

\* lines 77-90: the branch on frames.shape[0] and the file name it writes
WriteVideoTarget ==
    /\ \E n \in 1..MaxFrames :
         /\ p_frames' = n
         /\ IF n = 1
            THEN p_written' = TargetImg(p_target) /\ p_kind' = "image"
            ELSE p_written' = TargetVideo(p_target) /\ p_kind' = "video"
    /\ UNCHANGED <<p_target, pvVars, wcVars, rsVars>>

NextPath == WriteVideoTarget
SpecPath == InitPath /\ [][NextPath]_vars

----------------------------------------------------------------------------
(* process_wildcards: a prompt is a sequence of atoms, a marker __key__ is *)
(* one atom; a wildcard file is the set of options it offers (none: the    *)
(* file is missing or has no valid option).                                *)
Keys == {"a", "b"}
Marker(k) == IF k = "a" THEN "__a__" ELSE "__b__"
PromptAtoms == {"w"} \cup {Marker(k) : k \in Keys}
Prompts == UNION {[1..n -> PromptAtoms] : n \in 1..MaxPromptLen}
Options == {<<a>> : a \in PromptAtoms}

\* set(pattern.findall(prompt))
FindAll(prompt) == {k \in Keys : \E i \in DOMAIN prompt : prompt[i] = Marker(k)}

\* re.sub(f"__{key}__", replacement, prompt)
RECURSIVE ReSub(_, _, _)
ReSub(prompt, k, repl) ==
    IF prompt = <<>> THEN <<>>
    ELSE (IF Head(prompt) = Marker(k) THEN repl ELSE <<Head(prompt)>>)
         \o ReSub(Tail(prompt), k, repl)

InitWild ==
    /\ w_files \in [Keys -> SUBSET Options]
    /\ w_max_depth \in 1..MaxDepth
    /\ \/ \E q \in Prompts : w_input = [type |-> "str", val |-> q]
       \/ \E n \in 1..MaxList : \E l \in [1..n -> Prompts] :
             w_input = [type |-> "list", val |-> l]
    /\ w_single = FALSE /\ w_list = <<>> /\ w_idx = 0 /\ w_prompt = <<>>
    /\ w_depth = 0 /\ w_keys = {} /\ w_pc = "start"
    /\ w_processed = <<>> /\ w_result = <<>> /\ w_error = "none"
    /\ ParkedPreview /\ ParkedPath /\ ParkedRescale

wcOther == <<pvVars, ptVars, rsVars>>

\* lines 118-121, and the entry of replace_in_one for the first prompt
WcNormalize ==
    /\ w_pc = "start"
    /\ w_single' = (w_input.type = "str")
    /\ w_list' = IF w_input.type = "str" THEN <<w_input.val>> ELSE w_input.val
    /\ w_idx' = 1 /\ w_prompt' = w_list'[1] /\ w_depth' = 0
    /\ w_pc' = "while"
    /\ UNCHANGED <<w_files, w_max_depth, w_input, w_keys, w_processed, w_result, w_error>>
    /\ UNCHANGED wcOther

\* lines 126-130: the loop test and the search for markers
WcWhile ==
    /\ w_pc = "while"
    /\ IF w_depth < w_max_depth /\ FindAll(w_prompt) # {}
       THEN w_keys' = FindAll(w_prompt) /\ w_pc' = "for"
       ELSE w_keys' = w_keys /\ w_pc' = "check"
    /\ UNCHANGED <<w_files, w_max_depth, w_input, w_single, w_list, w_idx, w_prompt,
                   w_depth, w_processed, w_result, w_error>>
    /\ UNCHANGED wcOther

\* lines 132-136: one key of set(matches), in whatever order the set yields
WcReplaceKey ==
    /\ w_pc = "for"
    /\ \E k \in w_keys :
         IF w_files[k] = {}
         THEN /\ w_error' = "WildcardFileError" /\ w_pc' = "raised"
              /\ UNCHANGED <<w_prompt, w_keys, w_depth>>
         ELSE \E repl \in w_files[k] :
                /\ w_prompt' = ReSub(w_prompt, k, repl)
                /\ w_keys' = w_keys \ {k}
                /\ w_depth' = IF w_keys' = {} THEN w_depth + 1 ELSE w_depth
                /\ w_pc' = IF w_keys' = {} THEN "while" ELSE "for"
                /\ w_error' = w_error
    /\ UNCHANGED <<w_files, w_max_depth, w_input, w_single, w_list, w_idx,
                   w_processed, w_result>>
    /\ UNCHANGED wcOther

\* lines 138-149: the depth check, the return of replace_in_one, the next
\* prompt of the list, and the return of process_wildcards
WcCheck ==
    /\ w_pc = "check"
    /\ IF w_depth >= w_max_depth
       THEN /\ w_error' = "RecursionError" /\ w_pc' = "raised"
            /\ UNCHANGED <<w_processed, w_idx, w_prompt, w_depth, w_result>>
       ELSE /\ w_processed' = Append(w_processed, w_prompt)
            /\ w_error' = w_error
            /\ IF w_idx < Len(w_list)
               THEN /\ w_idx' = w_idx + 1 /\ w_prompt' = w_list[w_idx + 1]
                    /\ w_depth' = 0 /\ w_pc' = "while" /\ w_result' = w_result
               ELSE /\ w_pc' = "returned"
                    /\ w_result' = IF w_single
                                   THEN [type |-> "str", val |-> w_processed'[1]]
                                   ELSE [type |-> "list", val |-> w_processed']
                    /\ UNCHANGED <<w_idx, w_prompt, w_depth>>
    /\ UNCHANGED <<w_files, w_max_depth, w_input, w_single, w_list, w_keys>>
    /\ UNCHANGED wcOther

NextWild == WcNormalize \/ WcWhile \/ WcReplaceKey \/ WcCheck
SpecWild == InitWild /\ [][NextWild]_vars

----------------------------------------------------------------------------
(* rescale_text_encoders_hunyuan: forwards are "orig" or "scaled"; the     *)
(* local variable original_block_forward, which every scaled_block_forward *)
(* closure reads when it is called, holds the index of the block whose     *)
(* original forward was assigned to it last.                               *)
OrigBlockForward(i, x) == (i + 2) * x + i
OrigCEmbedderForward(x) == x + 1
Inputs == 1..MaxInput

InitRescale ==
    /\ r_K \in 1..MaxBlocks
    /\ r_has \in [{"txt_in", "c_embedder", "individual_token_refiner"} -> BOOLEAN]
    /\ r_llm \in 1..MaxScale /\ r_clip \in 1..MaxScale
    /\ r_pc = "start" /\ r_i = 0 /\ r_cell = {}
    /\ r_block_fwd = [i \in 0..(r_K - 1) |-> "orig"]
    /\ r_c_fwd = "orig" /\ r_call = <<>>
    /\ ParkedPreview /\ ParkedPath /\ ParkedWild

rsOther == <<pvVars, ptVars, wcVars>>

\* lines 24-34
RsPatchCEmbedder ==
    /\ r_pc = "start"
    /\ IF r_has["txt_in"] /\ r_has["c_embedder"]
       THEN /\ r_c_fwd' = "scaled"
            /\ r_pc' = IF r_has["individual_token_refiner"] THEN "loop" ELSE "returned"
       ELSE r_c_fwd' = r_c_fwd /\ r_pc' = "returned"
    /\ UNCHANGED <<r_K, r_has, r_llm, r_clip, r_i, r_cell, r_block_fwd, r_call>>
    /\ UNCHANGED rsOther

\* lines 35-41, one iteration
RsPatchBlock ==
    /\ r_pc = "loop" /\ r_i < r_K
    /\ r_cell' = {r_i}
    /\ r_block_fwd' = [r_block_fwd EXCEPT ![r_i] = "scaled"]
    /\ r_i' = r_i + 1
    /\ UNCHANGED <<r_K, r_has, r_llm, r_clip, r_pc, r_c_fwd, r_call>>
    /\ UNCHANGED rsOther

\* line 42
RsReturn ==
    /\ r_pc = "loop" /\ r_i = r_K
    /\ r_pc' = "returned"
    /\ UNCHANGED <<r_K, r_has, r_llm, r_clip, r_i, r_cell, r_block_fwd, r_c_fwd, r_call>>
    /\ UNCHANGED rsOther

\* block.forward(x) on the returned transformer, lines 38-40
BlockForward(i, x) ==
    IF r_block_fwd[i] = "scaled"
    THEN OrigBlockForward(CHOOSE j \in r_cell : TRUE, x) * r_llm
    ELSE OrigBlockForward(i, x)
RsCallBlock ==
    /\ r_pc = "returned"
    /\ \E i \in 0..(r_K - 1), x \in Inputs :
         r_call' = [target |-> "block", i |-> i, x |-> x, out |-> BlockForward(i, x)]
    /\ UNCHANGED <<r_K, r_has, r_llm, r_clip, r_pc, r_i, r_cell, r_block_fwd, r_c_fwd>>
    /\ UNCHANGED rsOther

\* txt_in.c_embedder.forward(x) on the returned transformer, lines 29-31
CEmbedderForward(x) ==
    IF r_c_fwd = "scaled" THEN OrigCEmbedderForward(x) * r_clip
    ELSE OrigCEmbedderForward(x)
RsCallCEmbedder ==
    /\ r_pc = "returned"
    /\ \E x \in Inputs :
         r_call' = [target |-> "c_embedder", i |-> 0, x |-> x, out |-> CEmbedderForward(x)]
    /\ UNCHANGED <<r_K, r_has, r_llm, r_clip, r_pc, r_i, r_cell, r_block_fwd, r_c_fwd>>
    /\ UNCHANGED rsOther

NextRescale == RsPatchCEmbedder \/ RsPatchBlock \/ RsReturn \/ RsCallBlock \/ RsCallCEmbedder
SpecRescale == InitRescale /\ [][NextRescale]_vars

----------------------------------------------------------------------------
(* Properties of LatentPreviewer                                           *)

Drained(pre) == SumK(pre) = CountE(pre, "mux")
NFrames == frames[1]
Unsupported == mode = "latent2rgb" /\ ~HasCoefficients(model_type)
VideoFile == files[TargetVideo(DefaultTarget)]
ImageFile == files[TargetImg(DefaultTarget)]

\* C1: in write_video with N > 1 frames the container is opened first, the
\* frames are submitted in input order, every packet a submission emits is
\* muxed before the next submission, the encoder is flushed exactly once
\* after frame N, the trailing packets are muxed, and only then the
\* container is closed; nothing is left unmuxed at close and nothing is
\* muxed after close.
C1_EncodeMuxOrder ==
    /\ \A j \in 1..Len(log) :
         LET pre == Prefix(log, j)
             ev == log[j]
         IN /\ ev.e = "open" => j = 1
            /\ ev.e \in {"submit", "mux", "flush", "close"} => log[1].e = "open"
            /\ ev.e = "submit" =>
                  /\ ev.i = CountE(pre, "submit") + 1
                  /\ ev.i <= NFrames
                  /\ CountE(pre, "flush") = 0
                  /\ Drained(pre)
            /\ ev.e = "mux" =>
                  /\ CountE(pre, "mux") < SumK(pre)
                  /\ CountE(pre, "close") = 0
            /\ ev.e = "flush" =>
                  /\ CountE(pre, "submit") = NFrames
                  /\ CountE(pre, "flush") = 0
                  /\ Drained(pre)
            /\ ev.e = "close" =>
                  /\ j = Len(log)
                  /\ CountE(pre, "flush") = 1
                  /\ Drained(pre)
    /\ container = "closed" => enc_buffered = 0 /\ pending = 0
    /\ (pc = "done" /\ NFrames > 1) =>
          /\ log[Len(log)].e = "close"
          /\ CountE(log, "submit") = NFrames
          /\ CountE(log, "mux") = SumK(log)
          /\ VideoFile = "complete"
C1_Witness ==
    /\ pc = "done" /\ NFrames > 1 /\ container = "closed"
    /\ \E j \in 1..Len(log) : log[j].e = "flush" /\ log[j].k > 0
    /\ \E j \in 1..Len(log) : log[j].e = "submit" /\ log[j].k > 0

SinkBranch ==
    IF NFrames = 1
    THEN /\ log = <<Ev("image", 0, 0)>>
         /\ container = "none"
         /\ ImageFile = "complete"
         /\ VideoFile = files0[TargetVideo(DefaultTarget)]
    ELSE /\ CountE(log, "open") = 1
         /\ CountE(log, "submit") = NFrames
         /\ CountE(log, "image") = 0
         /\ ImageFile = files0[TargetImg(DefaultTarget)]
         /\ VideoFile = "complete"

\* C2 as stated: 1 frame writes only a still image and opens no container;
\* N > 1 frames open exactly one container, submit exactly N frames and write
\* no image, at the configured rate (LearnedDecoder) or at one quarter of
\* the configured rate (LinearProjection).
C2_QuarterRate ==
    pc = "done" =>
      /\ SinkBranch
      /\ NFrames > 1 =>
            \E r \in stream_rate :
               /\ stream_rate = {r}
               /\ mode = "taehv" => r = args_fps
               /\ mode = "latent2rgb" => 4 * r = args_fps
\* C2 amended: the same, with the LinearProjection rate being the integer
\* part of one quarter of the configured rate.
C2_TruncatedQuarterRate ==
    pc = "done" =>
      /\ SinkBranch
      /\ NFrames > 1 =>
            \E r \in stream_rate :
               /\ stream_rate = {r}
               /\ mode = "taehv" => r = args_fps
               /\ mode = "latent2rgb" => (4 * r <= args_fps /\ args_fps < 4 * r + 4)
C2_Witness ==
    /\ pc = "done" /\ NFrames > 1 /\ mode = "latent2rgb"
    /\ args_fps % 4 # 0 /\ stream_rate = {args_fps \div 4}

\* C3: once the container has been opened it is closed before write_video
\* returns or raises.
C3_ClosedOnEveryExit == pc \in {"done", "raised"} => container # "open"

\* C4: a preview() call that fails raises its error and leaves the output
\* file written by an earlier successful preview intact.
C4_FailureKeepsEarlierOutput ==
    pc = "raised" =>
      /\ raised # "none"
      /\ \A p \in Paths : files0[p] = "complete" => files[p] = files0[p]

\* C5 as stated: in LinearProjection mode with a family that has no
\* coefficient table every preview() call fails with ValueError before the
\* Frame Sink; nothing is written, opened or modified.
C5_AlwaysValueError ==
    (Unsupported /\ pc \notin {"idle", "normalize", "decode"}) =>
      /\ pc = "raised" /\ raised = "ValueError"
      /\ log = <<>> /\ container = "none" /\ files = files0
\* C5 amended: every such call fails before the Frame Sink and writes,
\* opens and modifies nothing; the error is ValueError whenever the noise
\* normalizer succeeded, and the normalizer's IndexError otherwise.
C5_FailsBeforeSink ==
    Unsupported =>
      /\ pc \in {"idle", "normalize", "decode", "raised"}
      /\ log = <<>> /\ container = "none" /\ files = files0
      /\ pc = "raised" => raised = (IF noise_idx # {} THEN "ValueError" ELSE "IndexError")
C5_Witness == Unsupported /\ pc = "raised" /\ raised = "ValueError"

\* C6: LinearProjection decode of a snapshot given in the layout
\* {batch, frame, channel, H, W} ('wan': without batch) returns F frames of
\* 3 x H x W, and preview() writes F frames of 8H x 8W.
C6_FrameChannelLayout ==
    (/\ mode = "latent2rgb" /\ HasCoefficients(model_type) /\ layout = "BFCHW"
     /\ noise_idx # {} /\ pc # "decode") =>
      LET F == latent[2]
          H == latent[4]
          W == latent[5]
      IN /\ decoded = <<F, RgbChannels, H, W>>
         /\ pc # "upscale" => frames = <<F, RgbChannels, ScaleFactor * H, ScaleFactor * W>>
         /\ pc = "done" => (IF F = 1 THEN CountE(log, "image") = 1
                                      ELSE CountE(log, "submit") = F)

\* C7 as stated: every step < 0 or >= schedule length surfaces an
\* out-of-bounds error and writes nothing; a noise fraction is read only for
\* 0 <= step < length.
C7_NegativeStepRejected ==
    pc \notin {"idle", "normalize"} =>
      /\ (step < 0 \/ step >= TLen) =>
            /\ pc = "raised" /\ raised = "IndexError"
            /\ log = <<>> /\ files = files0
      /\ noise_idx # {} => (0 <= step /\ step < TLen)
\* C7 amended: a step >= length or < -length surfaces an out-of-bounds error
\* and writes nothing; a noise fraction is read only for
\* -length <= step < length, a negative step reading from the end.
C7_StepBeyondLengthRejected ==
    pc \notin {"idle", "normalize"} =>
      IF step >= TLen \/ step < -TLen
      THEN /\ pc = "raised" /\ raised = "IndexError" /\ noise_idx = {}
           /\ log = <<>> /\ files = files0
      ELSE /\ noise_idx = {IF step >= 0 THEN step ELSE step + TLen}
           /\ raised # "IndexError"
C7_Witness == pc = "raised" /\ raised = "IndexError" /\ step >= TLen

----------------------------------------------------------------------------
(* Properties of the path handling, of process_wildcards and of            *)
(* rescale_text_encoders_hunyuan                                           *)

ReplaceTrailing(t, old, new) ==
    [i \in DOMAIN t |-> IF i = Len(t) /\ t[i] = old THEN new ELSE t[i]]

\* C8: a 1-frame call writes to the target with its .mp4 extension replaced
\* by .png, an N>1-frame call to the target with its .png extension replaced
\* by .mp4; only the trailing extension differs from the target, and for a
\* target that carries one of the two extensions the written extension
\* matches the frame count.
C8_OnlyTrailingExtensionChanges ==
    p_kind # None =>
      LET last == p_written[Len(p_written)]
      IN /\ p_frames = 1 => p_written = ReplaceTrailing(p_target, ".mp4", ".png")
         /\ p_frames > 1 => p_written = ReplaceTrailing(p_target, ".png", ".mp4")
         /\ p_target[Len(p_target)] \in {".mp4", ".png"} =>
               last = (IF p_frames = 1 THEN ".png" ELSE ".mp4")

\* C9: replace_in_one runs at most max_depth rounds; a returned prompt has
\* no marker; RecursionError is raised only when the prompt still has a
\* marker after max_depth rounds; the result has the type (and, for a list,
\* the length) of the input.
C9_RecursionErrorOnlyWithMarker ==
    /\ w_depth <= w_max_depth
    /\ w_pc = "returned" =>
          /\ w_result.type = w_input.type
          /\ IF w_result.type = "str" THEN FindAll(w_result.val) = {}
             ELSE /\ Len(w_result.val) = Len(w_input.val)
                  /\ \A i \in DOMAIN w_result.val : FindAll(w_result.val[i]) = {}
    /\ (w_pc = "raised" /\ w_error = "RecursionError") => FindAll(w_prompt) # {}

\* C10: after the patch, with K >= 2 blocks, the forward of block i returns
\* block i's own original output times llm_scale, and the c_embedder
\* forward returns the original c_embedder output times clip_scale.
C10_EachBlockScalesItsOwnForward ==
    (/\ r_call # <<>> /\ r_K >= 2
     /\ r_has["txt_in"] /\ r_has["c_embedder"] /\ r_has["individual_token_refiner"]) =>
      IF r_call.target = "block"
      THEN r_call.out = OrigBlockForward(r_call.i, r_call.x) * r_llm
      ELSE r_call.out = OrigCEmbedderForward(r_call.x) * r_clip

====
